---------------------------- MODULE Spec2Model ----------------------------
(***************************************************************************)
(* A model of the resilience wrappers (src/src/utils/error-handler.ts),    *)
(* the ambient context store (ContextManager) and the in-memory logger of  *)
(* kitium-ai/logger.                                                       *)
(*                                                                         *)
(* Three specifications share the module's variables; each one moves the   *)
(* variables of one component and leaves the others at their initial       *)
(* values:                                                                 *)
(*   SpecBreaker  - CircuitBreaker.execute, interleaved calls, the clock   *)
(*   SpecRetry    - retryWithBackoff                                       *)
(*   SpecContext  - ContextManager + InMemoryLogger                        *)
(***************************************************************************)
EXTENDS Integers, Sequences, FiniteSets, TLC

VARIABLES
    \* ---- the global logger (logger.ts: let globalLogger) ----
    globalLogger,       \* TRUE once initializeLogger has run
    logCalls,           \* records handed to the global logger so far
    \* ---- one CircuitBreaker instance ----
    failureThreshold,   \* config.failureThreshold
    state,              \* this.state
    failureCount,       \* this.failureCount
    lastFailureTime,    \* this.lastFailureTime (NoFailureYet for null)
    now,                \* Date.now()
    notified,           \* the arguments onStateChange was called with, in order
    started,            \* number of execute() calls made so far
    pc,                 \* per call: "idle", "awaiting" (suspended on fn), "done"
    admitted,           \* per call: this.state when fn was invoked, or "none"
    fnResult,           \* per call: how fn settled: "none", "ok", "fail"
    outcome,            \* per call: how execute() settled
    invocations,        \* number of times fn was invoked
    \* ---- one retryWithBackoff(fn, config) call ----
    maxRetries,         \* config.maxRetries
    fnAlwaysFails,      \* fn rejects on every invocation
    fnFailures,         \* otherwise: fn rejects this many times, then resolves
    fnThrowsError,      \* whether what fn rejects with is an Error instance
    rPc,                \* "idle", "awaiting" (on fn), "sleeping", "done"
    attempt,            \* the loop variable
    delay,              \* let delay
    lastError,          \* let lastError
    sleepMs,            \* actualDelay of the pending setTimeout
    rInvocations,       \* number of times fn was invoked
    rResult,            \* how the returned promise settled
    \* ---- contextManager and one InMemoryLogger ----
    ctxs,               \* the LogContext objects created so far, by identity
    metas,              \* the metadata maps created so far: the value at key "k"
    alive,              \* per task (asynchronous chain): has it started
    inherited,          \* per task: the store it was created under, or NoStore
    stack,              \* per task: the stores of the run() calls it is inside
    logs,               \* InMemoryLogger.logs
    nLogged,            \* log calls made so far
    maxSize,            \* InMemoryLogger.maxSize
    last,               \* the last contextManager call and what it returned
    threw,              \* some contextManager or logger call raised an error
    \* ---- what each unit of work itself established and wrote ----
    units,              \* per establish call, in order: see NewUnit
    unitInherited,      \* per task: the unit it was created in, or 0
    unitStack,          \* per task: the units of the run() calls it is inside
    \* ---- one caller of sanitizeData ----
    sanHeap,            \* the objects and arrays that exist, by reference
    sanBefore,          \* sanHeap as it was before the first call
    sanInput,           \* data of the first call
    sensitiveFields,    \* sensitiveFields of both calls
    sanPc,              \* "start", "once" (called), "twice" (called on the result)
    sanitized,          \* what the first call returned
    resanitized,        \* what the call on that result returned
    \* ---- one logger of one of the four variants ----
    variant,            \* which class was constructed
    transport,          \* CentralLogger: the transport its config enables
    handed,             \* the records handed to the backend, in order
    stream,             \* the winston Logger: "open", "ending", "finished"
    finishListeners,    \* close() calls whose resolve is registered on 'finish'
    closePc,            \* per close() call: "idle", "pending", "resolved"
    \* ---- one request passing through the Express middlewares ----
    setup,              \* who calls them: an Express app, or the unit tests
    reqMethod,          \* req.method
    reqHasBody,         \* req.body is truthy
    reqHeaders,         \* what req.get() returns for the x-... headers
    mwPc,               \* per middleware: "idle", "inNext", "returned", "threw"
    nextCalls,          \* per middleware: calls of its next argument
    resTraceHeader,     \* the response's x-trace-id header, once set
    jsonPatched,        \* res.json is tracingMiddleware's wrapper
    perfRegistered,     \* the 'finish' listener is registered on res
    resJson,            \* the JSON error response, once sent
    errorRecord,        \* the error-level record of errorLoggingMiddleware
    errPc,              \* errorLoggingMiddleware: "idle", "returned", "threw"
    incoming,           \* 'Incoming request' records emitted
    completed,          \* 'Request completed' records emitted
    headersSent,        \* res.headersSent
    \* ---- the global logger of logger-factory.ts ----
    factoryLogger,      \* logger-factory.ts: let globalLogger (NoLogger: null)
    initCalls,          \* initGlobalLogger calls made so far
    created,            \* what the last initGlobalLogger that returned, returned
    got,                \* the last getLogger()/getGlobalLogger() call
    \* ---- one caller of contextManager outside every scope ----
    calls               \* its calls so far, in order, with what get() returned

breakerVars == <<failureThreshold, state, failureCount, lastFailureTime, now,
                 notified, started, pc, admitted, fnResult, outcome, invocations>>
loggerVars == <<globalLogger, logCalls>>
retryVars == <<maxRetries, fnAlwaysFails, fnFailures, fnThrowsError, rPc,
               attempt, delay, lastError, sleepMs, rInvocations, rResult>>
variantVars == <<variant, transport, handed, stream, finishListeners, closePc>>
sanitizeVars == <<sanHeap, sanBefore, sanInput, sensitiveFields, sanPc,
                  sanitized, resanitized>>
requestVars == <<setup, reqMethod, reqHasBody, reqHeaders, mwPc, nextCalls,
                 resTraceHeader, jsonPatched, perfRegistered, resJson,
                 errorRecord, errPc, incoming, completed, headersSent>>
historyVars == <<calls>>
factoryVars == <<factoryLogger, initCalls, created, got>>
contextVars == <<ctxs, metas, alive, inherited, stack, logs, nLogged, maxSize,
                 last, threw, units, unitInherited, unitStack>>

-----------------------------------------------------------------------------
(* Bounds of the model *)

\* execute() calls made on the breaker in one behaviour
MaxCalls == 4
\* largest failureThreshold a breaker is constructed with
MaxThreshold == 2
\* the clock stops here
MaxTime == 4
\* config.resetTimeoutMs of the breaker under check
ResetTimeoutMs == 1

\* this.lastFailureTime = null; null and 0 are both falsy at line 90
NoFailureYet == 0

Calls == 1..MaxCalls

\* largest config.maxRetries retryWithBackoff is called with
MaxRetriesBound == 3

\* the defaults of RetryConfig
InitialDelayMs == 100
MaxDelayMs == 10000
BackoffMultiplier == 2

-----------------------------------------------------------------------------
(* getLogger / initializeLogger (logger.ts)                                *)

\* getLogger() throws 'Logger not initialized' when globalLogger is unset
GetLoggerThrows == ~globalLogger

InitializeLogger ==
    /\ ~globalLogger
    /\ globalLogger' = TRUE
    /\ UNCHANGED logCalls

-----------------------------------------------------------------------------
(* CircuitBreaker                                                          *)

\* line 115: this.failureCount >= failureThreshold
ThresholdReachedStrict(count) == count > failureThreshold
ThresholdReached(count) == count >= failureThreshold

\* lines 88-92: the circuit should be reset
ResetDueInclusive ==
    /\ state = "open"
    /\ lastFailureTime # NoFailureYet
    /\ now - lastFailureTime >= ResetTimeoutMs
ResetDue ==
    /\ state = "open"
    /\ lastFailureTime # NoFailureYet
    /\ now - lastFailureTime > ResetTimeoutMs

\* line 105: a success resets the breaker only when it is half-open
ResetsOnSuccessAlways(s) == s \in {"closed", "half-open"}
ResetsOnSuccess(s) == s = "half-open"

\* setState (lines 127-137): the state is assigned first; when it changed,
\* getLogger().info runs (and throws without a logger), then onStateChange.
SetStateChanges(old, new) == old # new
SetStateThrows(old, new) == SetStateChanges(old, new) /\ GetLoggerThrows
SetStateNotified(old, new) ==
    IF SetStateChanges(old, new) /\ ~GetLoggerThrows
    THEN Append(notified, new) ELSE notified
SetStateLogs(old, new) ==
    IF SetStateChanges(old, new) /\ ~GetLoggerThrows THEN 1 ELSE 0

\* execute(), lines 84-102: the synchronous part, up to the await on fn()
ExecuteCall(c) ==
    /\ c = started + 1
    /\ c \in Calls
    /\ pc[c] = "idle"
    /\ started' = c
    /\ LET s1 == IF ResetDue THEN "half-open" ELSE state
       IN /\ state' = s1
          /\ notified' = SetStateNotified(state, s1)
          /\ logCalls' = logCalls + SetStateLogs(state, s1)
          /\ IF SetStateThrows(state, s1)
             THEN \* setState('half-open') threw out of execute()
                  /\ pc' = [pc EXCEPT ![c] = "done"]
                  /\ outcome' = [outcome EXCEPT ![c] = "loggerError"]
                  /\ UNCHANGED <<admitted, invocations>>
             ELSE IF s1 = "open"
             THEN \* line 98
                  /\ pc' = [pc EXCEPT ![c] = "done"]
                  /\ outcome' = [outcome EXCEPT ![c] = "openError"]
                  /\ UNCHANGED <<admitted, invocations>>
             ELSE \* line 102: this.fn() is invoked, execute() suspends
                  /\ pc' = [pc EXCEPT ![c] = "awaiting"]
                  /\ admitted' = [admitted EXCEPT ![c] = s1]
                  /\ invocations' = invocations + 1
                  /\ UNCHANGED outcome
    /\ UNCHANGED <<failureThreshold, failureCount, lastFailureTime, now,
                   fnResult, globalLogger>>

\* the catch block, lines 111-124, entered with this.state = cur and the
\* error err
CatchBlock(c, cur, err) ==
    LET count == failureCount + 1
        opens == ThresholdReached(count)
        rethrown == opens /\ GetLoggerThrows
    IN /\ failureCount' = count
       /\ lastFailureTime' = now
       /\ state' = IF opens THEN "open" ELSE cur
       /\ notified' = IF opens THEN SetStateNotified(cur, "open") ELSE notified
       /\ logCalls' = logCalls
                      + (IF opens THEN SetStateLogs(cur, "open") ELSE 0)
                      + (IF opens /\ ~GetLoggerThrows THEN 1 ELSE 0)
       /\ outcome' = [outcome EXCEPT ![c] = IF rethrown THEN "loggerError" ELSE err]

\* fn() resolved: lines 104-110
FnResolves(c) ==
    /\ pc[c] = "awaiting"
    /\ pc' = [pc EXCEPT ![c] = "done"]
    /\ fnResult' = [fnResult EXCEPT ![c] = "ok"]
    /\ IF ResetsOnSuccess(state)
       THEN IF SetStateThrows(state, "closed")
            THEN \* setState('closed') has assigned this.state when its
                 \* getLogger() throws into the catch block of the same try
                 CatchBlock(c, "closed", "loggerError")
            ELSE /\ state' = "closed"
                 /\ failureCount' = 0
                 /\ notified' = SetStateNotified(state, "closed")
                 /\ logCalls' = logCalls + SetStateLogs(state, "closed")
                 /\ outcome' = [outcome EXCEPT ![c] = "resolved"]
                 /\ UNCHANGED lastFailureTime
       ELSE /\ outcome' = [outcome EXCEPT ![c] = "resolved"]
            /\ UNCHANGED <<state, failureCount, lastFailureTime, notified, logCalls>>
    /\ UNCHANGED <<failureThreshold, now, started, admitted, invocations,
                   globalLogger>>

\* fn() rejected: lines 111-124
FnRejects(c) ==
    /\ pc[c] = "awaiting"
    /\ pc' = [pc EXCEPT ![c] = "done"]
    /\ fnResult' = [fnResult EXCEPT ![c] = "fail"]
    /\ CatchBlock(c, state, "fnError")
    /\ UNCHANGED <<failureThreshold, now, started, admitted, invocations,
                   globalLogger>>

\* time passes between two steps of the event loop
Tick ==
    /\ now < MaxTime
    /\ now' = now + 1
    /\ UNCHANGED <<failureThreshold, state, failureCount, lastFailureTime,
                   notified, started, pc, admitted, fnResult, outcome,
                   invocations, globalLogger, logCalls>>

InitLogger ==
    /\ globalLogger = FALSE
    /\ logCalls = 0

InitBreaker ==
    /\ failureThreshold \in 1..MaxThreshold
    /\ state = "closed"
    /\ failureCount = 0
    /\ lastFailureTime = NoFailureYet
    /\ now = 1   \* Date.now() is positive
    /\ notified = <<>>
    /\ started = 0
    /\ pc = [c \in Calls |-> "idle"]
    /\ admitted = [c \in Calls |-> "none"]
    /\ fnResult = [c \in Calls |-> "none"]
    /\ outcome = [c \in Calls |-> "none"]
    /\ invocations = 0

-----------------------------------------------------------------------------
(* retryWithBackoff (error-handler.ts lines 16-65)                         *)

NoError == [src |-> "none", isError |-> FALSE, n |-> 0]
\* what fn rejects with on its n-th invocation
FnError(n) == [src |-> "fn", isError |-> fnThrowsError, n |-> n]
\* what getLogger() throws
LoggerError == [src |-> "logger", isError |-> TRUE, n |-> 0]

\* line 34: error instanceof Error ? error : new Error(String(error))
AsError(e) == IF e.isError THEN e ELSE [e EXCEPT !.isError = TRUE]

Min(a, b) == IF a <= b THEN a ELSE b

\* line 41: Math.random() * 0.1 * delay, in whole milliseconds
Jitters(d) == {0, d \div 20, (d \div 10) - 1}

\* line 36: the attempt that just failed was the last one
LastAttempt(a) == a = maxRetries

\* whether fn's next invocation (the one numbered n) rejects
FnRejectsAt(n) == fnAlwaysFails \/ n <= fnFailures

\* retryWithBackoff is called: lines 20-32, up to the first await fn()
RetryCall ==
    /\ rPc = "idle"
    /\ rPc' = "awaiting"
    /\ attempt' = 0
    /\ delay' = InitialDelayMs
    /\ lastError' = NoError
    /\ rInvocations' = rInvocations + 1
    /\ UNCHANGED <<maxRetries, fnAlwaysFails, fnFailures, fnThrowsError,
                   sleepMs, rResult, loggerVars>>

\* line 32: fn() resolved, the value is returned
RetryFnResolves ==
    /\ rPc = "awaiting"
    /\ ~FnRejectsAt(rInvocations)
    /\ rPc' = "done"
    /\ rResult' = [kind |-> "resolved", error |-> NoError, n |-> rInvocations]
    /\ UNCHANGED <<maxRetries, fnAlwaysFails, fnFailures, fnThrowsError,
                   attempt, delay, lastError, sleepMs, rInvocations, loggerVars>>

\* lines 33-37 and 58-64: fn() rejected on the last attempt
RetryExhausted ==
    /\ rPc = "awaiting"
    /\ FnRejectsAt(rInvocations)
    /\ LastAttempt(attempt)
    /\ lastError' = AsError(FnError(rInvocations))
    /\ rPc' = "done"
    /\ IF GetLoggerThrows
       THEN /\ rResult' = [kind |-> "rejected", error |-> LoggerError, n |-> 0]
            /\ UNCHANGED logCalls
       ELSE /\ rResult' = [kind |-> "rejected", error |-> lastError', n |-> 0]
            /\ logCalls' = logCalls + 1
    /\ UNCHANGED <<maxRetries, fnAlwaysFails, fnFailures, fnThrowsError,
                   attempt, delay, sleepMs, rInvocations, globalLogger>>

\* lines 33-51: fn() rejected and attempts remain: log, then sleep
RetryBackoff ==
    /\ rPc = "awaiting"
    /\ FnRejectsAt(rInvocations)
    /\ ~LastAttempt(attempt)
    /\ lastError' = AsError(FnError(rInvocations))
    /\ \E jitter \in Jitters(delay) :
          LET actualDelay == Min(delay + jitter, MaxDelayMs)
          IN IF GetLoggerThrows
             THEN \* getLogger() at line 44 throws out of the catch block
                  /\ rPc' = "done"
                  /\ rResult' = [kind |-> "rejected", error |-> LoggerError, n |-> 0]
                  /\ UNCHANGED <<sleepMs, logCalls>>
             ELSE /\ rPc' = "sleeping"
                  /\ sleepMs' = actualDelay
                  /\ logCalls' = logCalls + 1
                  /\ UNCHANGED rResult
    /\ UNCHANGED <<maxRetries, fnAlwaysFails, fnFailures, fnThrowsError,
                   attempt, delay, rInvocations, globalLogger>>

\* lines 51-54, then the loop's attempt++ and line 32 again
RetryTimerFires ==
    /\ rPc = "sleeping"
    /\ delay' = Min(delay * BackoffMultiplier, MaxDelayMs)
    /\ attempt' = attempt + 1
    /\ rPc' = "awaiting"
    /\ rInvocations' = rInvocations + 1
    /\ UNCHANGED <<maxRetries, fnAlwaysFails, fnFailures, fnThrowsError,
                   lastError, sleepMs, rResult, loggerVars>>

InitRetry ==
    /\ maxRetries \in 0..MaxRetriesBound
    /\ fnAlwaysFails \in BOOLEAN
    /\ fnFailures \in IF fnAlwaysFails THEN {0} ELSE 0..maxRetries
    /\ fnThrowsError \in BOOLEAN
    /\ rPc = "idle"
    /\ attempt = 0
    /\ delay = 0
    /\ lastError = NoError
    /\ sleepMs = 0
    /\ rInvocations = 0
    /\ rResult = [kind |-> "pending", error |-> NoError, n |-> 0]

-----------------------------------------------------------------------------
(* ContextManager (console-logger.ts lines 132-210) and InMemoryLogger     *)
(* (in-memory-logger.ts)                                                   *)
(*                                                                         *)
(* A task is one asynchronous chain. AsyncLocalStorage gives each chain    *)
(* the store of the run() call it was created in (inherited) and, while it *)
(* is inside run() calls of its own, the store of the innermost one        *)
(* (stack). Steps of different tasks interleave freely: every step is a    *)
(* suspension point.                                                       *)

\* establish calls (initContext + run) made in one behaviour
MaxCtx == 2
\* asynchronous chains in one behaviour
MaxTasks == 2
\* log calls made on the in-memory logger in one behaviour
MaxLogCalls == 1
\* log calls made on the in-memory logger in one behaviour of SpecRecords
MaxAppends == 4
\* the largest options.maxSize an InMemoryLogger is constructed with
MaxSizeBound == 3
\* InMemoryLogger: options.maxSize ?? 10000
DefaultMaxSize == 10000
\* contextManager calls the caller outside every scope makes
MaxOutsideCalls == 3

Tasks == 1..MaxTasks

\* JavaScript's undefined; the empty string is the other falsy string
Undefined == "<undefined>"
\* asyncLocalStorage.getStore() outside every run()
NoStore == 0
\* context.metadata is undefined
NoMap == 0
\* what a read of context.metadata shows when there is no map
NoMapView == "<no map>"

IdFields == {"traceId", "spanId", "userId", "requestId", "sessionId",
             "correlationId"}
\* keys and values the model's callers pass to set()
SetKeys == {"userId"}
SetValues == {"A", "B"}
\* values the model's callers pass to addMetadata("k", value)
MetaValues == {"M"}
\* keys the model's callers pass to get()
GetKeys == {"traceId", "userId", "metadata"}
\* the emission methods the model's callers use, of lines 19-37
LogLevels == {"info"}

\* a || b on strings
OrElse(v, alt) == IF v = Undefined \/ v = "" THEN alt ELSE v

\* uuidv4(): a string no live value equals. Each place that can hold a
\* context has identifiers of its own: the contexts on the heap, the
\* entries of the in-memory logger, and the value a get() returned last.
UuidCount == 3 * (MaxCtx + MaxLogCalls + MaxAppends + 1 + MaxOutsideCalls)
Uuid == [i \in 1..UuidCount |-> "uuid-" \o ToString(i)]
UuidsAt(place) == <<Uuid[3 * place - 2], Uuid[3 * place - 1], Uuid[3 * place]>>
HeapIds == UuidsAt(Len(ctxs) + 1)
EntryIds == UuidsAt(MaxCtx + nLogged + 1)
\* a caller that calls outside every scope gets new identifiers per call
ReturnedIdsReused == UuidsAt(MaxCtx + MaxLogCalls + MaxAppends + 1)
ReturnedIds == UuidsAt(MaxCtx + MaxLogCalls + MaxAppends + 1 + Len(calls))

\* the partial contexts callers pass: a trace id that is absent or empty, a
\* user id, and a metadata map that is absent, a map the caller already
\* holds, or a new empty one
Partials ==
    [traceId : {Undefined, ""}, spanId : {Undefined},
     userId : {"A"}, requestId : {Undefined},
     sessionId : {Undefined}, correlationId : {Undefined},
     metadata : {NoMap} \cup (1..(Len(metas) + 1))]
\* initContext() called with no argument: every context?.x is undefined
NoPartial ==
    [traceId |-> Undefined, spanId |-> Undefined, userId |-> Undefined,
     requestId |-> Undefined, sessionId |-> Undefined,
     correlationId |-> Undefined, metadata |-> NoMap]

\* initContext, lines 138-149
InitContextNoFallback(p, ids) ==
    [traceId |-> p.traceId, spanId |-> OrElse(p.spanId, ids[2]),
     userId |-> p.userId, requestId |-> OrElse(p.requestId, ids[3]),
     sessionId |-> p.sessionId, correlationId |-> p.correlationId,
     metadata |-> p.metadata]
InitContext(p, ids) ==
    [traceId |-> OrElse(p.traceId, ids[1]), spanId |-> OrElse(p.spanId, ids[2]),
     userId |-> p.userId, requestId |-> OrElse(p.requestId, ids[3]),
     sessionId |-> p.sessionId, correlationId |-> p.correlationId,
     metadata |-> p.metadata]

\* asyncLocalStorage.getStore(), line 162
CurrentStore(t) ==
    IF stack[t] # <<>> THEN stack[t][Len(stack[t])] ELSE inherited[t]

\* getContext, lines 161-167: the store's object itself (ref), or a new
\* context that is on no heap (ref = NoStore)
GetContextNoDefault(t, ids) ==
    IF CurrentStore(t) # NoStore
    THEN [ref |-> CurrentStore(t), val |-> ctxs[CurrentStore(t)], isUndefined |-> FALSE]
    ELSE [ref |-> NoStore, val |-> NoPartial, isUndefined |-> TRUE]
GetContext(t, ids) ==
    IF CurrentStore(t) # NoStore
    THEN [ref |-> CurrentStore(t), val |-> ctxs[CurrentStore(t)], isUndefined |-> FALSE]
    ELSE [ref |-> NoStore, val |-> InitContext(NoPartial, ids), isUndefined |-> FALSE]

\* what a caller reads off a context: its fields and its metadata map's
\* content
View(c, ms) ==
    [traceId |-> c.traceId, spanId |-> c.spanId, userId |-> c.userId,
     requestId |-> c.requestId, sessionId |-> c.sessionId,
     correlationId |-> c.correlationId,
     metadata |-> IF c.metadata = NoMap THEN NoMapView ELSE ms[c.metadata]]
IdsOf(c) == [f \in IdFields |-> c[f]]

\* set, line 190: context[key] = value, on the object getContext returned
WriteFieldToCopy(heap, ref, key, value) == heap
WriteField(heap, ref, key, value) ==
    IF ref = NoStore THEN heap ELSE [heap EXCEPT ![ref][key] = value]

\* AsyncLocalStorage.run (line 155) leaves the scope when fn returns
LeaveScopeKeepsStore(stk) == stk
LeaveScope(stk) == SubSeq(stk, 1, Len(stk) - 1)

\* History of a unit of work (a scope entered by one establish call and
\* everything that descends from it): what the unit itself was given and
\* wrote. The code keeps none of this; the claims are stated against it.
CurrentUnit(t) ==
    IF unitStack[t] # <<>> THEN unitStack[t][Len(unitStack[t])]
    ELSE unitInherited[t]
\* the id fields a unit starts with: the values its partial gives, and the
\* identifiers synthesized for the ones it leaves out
Given(p, c) ==
    [f \in IdFields |-> IF p[f] \notin {Undefined, ""} THEN p[f] ELSE c[f]]
NewUnit(p, c, ms, enclosing, seen) ==
    [expected |-> Given(p, c),              \* id fields: given, or set() here
     meta |-> View(c, ms).metadata,         \* metadata: given, or added here
     parent |-> enclosing,                  \* the enclosing unit, or 0
     before |-> [k \in SetKeys |-> seen[k]],\* the enclosing scope's values then
     touched |-> {}]                        \* keys set() in the parent since
NoteSet(us, u, key, value) ==
    [n \in DOMAIN us |->
        IF n = u
        THEN [us[n] EXCEPT !.expected[key] = value]
        ELSE IF us[n].parent = u /\ u # 0
        THEN [us[n] EXCEPT !.touched = @ \cup {key}]
        ELSE us[n]]
NoteMeta(us, u, value) ==
    [n \in DOMAIN us |-> IF n = u THEN [us[n] EXCEPT !.meta = value] ELSE us[n]]
\* what unit u's own history says a read of key shows; outside every unit
\* there is no history and the read stands for itself
Own(u, key, value) ==
    IF u = 0 THEN value
    ELSE IF key = "metadata" THEN units[u].meta
    ELSE units[u].expected[key]

\* what the most recent call on the context manager returned: get() a value,
\* set() and addMetadata() nothing
NoResult == [key |-> "none", value |-> Undefined, unit |-> 0, own |-> Undefined]

\* withContext, in-memory-logger.ts lines 39-45: initContext, then run
\* enters fn
Establish(t, p) ==
    /\ alive[t]
    /\ Len(ctxs) < MaxCtx
    /\ LET c == InitContext(p, HeapIds)
           ms == IF p.metadata = Len(metas) + 1
                 THEN Append(metas, Undefined) ELSE metas
       IN /\ ctxs' = Append(ctxs, c)
          /\ metas' = ms
          /\ stack' = [stack EXCEPT ![t] = Append(@, Len(ctxs) + 1)]
          /\ units' = Append(units,
                 NewUnit(p, c, ms, CurrentUnit(t),
                         GetContext(t, ReturnedIds).val))
          /\ unitStack' = [unitStack EXCEPT ![t] = Append(@, Len(units) + 1)]
    /\ UNCHANGED <<alive, inherited, logs, nLogged, maxSize, last, threw,
                   unitInherited>>

\* fn returns and run() with it: the task is back in the enclosing scope
Return(t) ==
    /\ alive[t]
    /\ unitStack[t] # <<>>
    /\ stack' = [stack EXCEPT ![t] = LeaveScope(@)]
    /\ unitStack' = [unitStack EXCEPT ![t] = SubSeq(@, 1, Len(@) - 1)]
    /\ UNCHANGED <<ctxs, metas, alive, inherited, logs, nLogged, maxSize, last,
                   threw, units, unitInherited>>

\* task t schedules a continuation (a timer, a promise callback, the rest of
\* an async fn): the new chain u carries t's current store
Fork(t, u) ==
    /\ alive[t]
    /\ ~alive[u]
    /\ \A v \in Tasks : v < u => alive[v]
    /\ alive' = [alive EXCEPT ![u] = TRUE]
    /\ inherited' = [inherited EXCEPT ![u] = CurrentStore(t)]
    /\ unitInherited' = [unitInherited EXCEPT ![u] = CurrentUnit(t)]
    /\ UNCHANGED <<ctxs, metas, stack, logs, nLogged, maxSize, last, threw,
                   units, unitStack>>

\* contextManager.get(key), lines 181-183: this.getContext()[key]
Get(t, key) ==
    /\ alive[t]
    /\ LET g == GetContext(t, ReturnedIds)
           value == View(g.val, metas)[key]
       IN /\ last' = [key |-> key, value |-> value, unit |-> CurrentUnit(t),
                      own |-> Own(CurrentUnit(t), key, value)]
          /\ threw' = (threw \/ g.isUndefined)
    /\ UNCHANGED <<ctxs, metas, alive, inherited, stack, logs, nLogged, maxSize,
                   units, unitInherited, unitStack>>

\* contextManager.set(key, value), lines 188-191; outside every run() the
\* write goes to the context getContext made for this call, which is dropped
Set(t, key, value) ==
    /\ alive[t]
    /\ LET g == GetContext(t, ReturnedIds)
       IN /\ ctxs' = WriteField(ctxs, g.ref, key, value)
          /\ threw' = (threw \/ g.isUndefined)
    /\ last' = NoResult
    /\ units' = NoteSet(units, CurrentUnit(t), key, value)
    /\ UNCHANGED <<metas, alive, inherited, stack, logs, nLogged, maxSize,
                   unitInherited, unitStack>>

\* contextManager.setContext({userId: value}), lines 172-176: the merge of
\* the ambient context and the partial is built and returned; nothing is
\* stored
SetContext(t, value) ==
    /\ alive[t]
    /\ LET g == GetContext(t, ReturnedIds)
           updated == [g.val EXCEPT !.userId = value]
       IN /\ last' = [key |-> "setContext", value |-> value,
                      unit |-> CurrentUnit(t),
                      own |-> View(updated, metas)["userId"]]
          /\ threw' = (threw \/ g.isUndefined)
    /\ UNCHANGED <<ctxs, metas, alive, inherited, stack, logs, nLogged, maxSize,
                   units, unitInherited, unitStack>>

\* contextManager.addMetadata("k", value), lines 196-202
AddMetadata(t, value) ==
    /\ alive[t]
    /\ LET g == GetContext(t, ReturnedIds)
           fresh == Len(metas) + 1
       IN /\ threw' = (threw \/ g.isUndefined)
          /\ IF g.ref = NoStore
             THEN \* the new context and its new map are dropped on return
                  UNCHANGED <<ctxs, metas>>
             ELSE IF g.val.metadata = NoMap
             THEN \* lines 198-200: context.metadata = {}
                  /\ metas' = Append(metas, value)
                  /\ ctxs' = [ctxs EXCEPT ![g.ref].metadata = fresh]
             ELSE /\ metas' = [metas EXCEPT ![g.val.metadata] = value]
                  /\ UNCHANGED ctxs
    /\ last' = NoResult
    /\ units' = NoteMeta(units, CurrentUnit(t), value)
    /\ UNCHANGED <<alive, inherited, stack, logs, nLogged, maxSize,
                   unitInherited, unitStack>>

\* addLog lines 163-166: this.logs.slice(-this.maxSize) when too long
Trim(entries, size) ==
    IF Len(entries) > size /\ size # 0
    THEN SubSeq(entries, Len(entries) - size + 1, Len(entries))
    ELSE entries

\* addLog, lines 137-167; seq numbers the records in the order they were
\* appended
AddLog(t, level) ==
    /\ alive[t]
    /\ nLogged' = nLogged + 1
    /\ LET g == GetContext(t, EntryIds)
           u == CurrentUnit(t)
           entry == [level |-> level, context |-> IdsOf(g.val),
                     seq |-> nLogged + 1, task |-> t, unit |-> u,
                     own |-> IF u = 0 THEN IdsOf(g.val) ELSE units[u].expected]
       IN /\ logs' = Trim(Append(logs, entry), maxSize)
          /\ threw' = (threw \/ g.isUndefined)
    /\ UNCHANGED <<ctxs, metas, alive, inherited, stack, maxSize, last, units,
                   unitInherited, unitStack>>

\* the context of a stored entry: the object literal addLog built at lines
\* 144-151 from the fields' values, not the ambient context object itself
StoredContextLive(entry) ==
    IF entry.unit # 0 THEN IdsOf(ctxs[entry.unit]) ELSE entry.context
StoredContext(entry) == entry.context
\* getLogs(), lines 61-63: a copy of the list, holding the same entries
GetLogs ==
    [i \in DOMAIN logs |->
        [level |-> logs[i].level, seq |-> logs[i].seq,
         context |-> StoredContext(logs[i])]]

\* InMemoryLogger.error/warn/info/http/debug, lines 19-37
Log(t, level) ==
    /\ nLogged < MaxLogCalls
    /\ AddLog(t, level)

\* the same calls in SpecRecords, at every level and up to MaxAppends times
Levels == {"error", "warn", "info", "http", "debug"}
Emit(t, level) ==
    /\ nLogged < MaxAppends
    /\ AddLog(t, level)

\* new InMemoryLogger(options), lines 14-17: options.maxSize ?? 10000
NoOption == -1
MaxSizeOptions == {NoOption} \cup (0..MaxSizeBound)
Constructed(option) == IF option = NoOption THEN DefaultMaxSize ELSE option

InitContextStore ==
    /\ ctxs = <<>>
    /\ metas = <<>>
    /\ alive = [t \in Tasks |-> t = 1]
    /\ inherited = [t \in Tasks |-> NoStore]
    /\ stack = [t \in Tasks |-> <<>>]
    /\ logs = <<>>
    /\ nLogged = 0
    /\ maxSize = DefaultMaxSize
    /\ last = NoResult
    /\ threw = FALSE
    /\ units = <<>>
    /\ unitInherited = [t \in Tasks |-> 0]
    /\ unitStack = [t \in Tasks |-> <<>>]

-----------------------------------------------------------------------------
(* sanitizeData (express-middleware.ts lines 201-223)                      *)
(*                                                                         *)
(* JavaScript objects and arrays are nodes of a heap, held by reference;   *)
(* a value is a scalar or a reference to a node. Strings that the function *)
(* looks into (keys, fragments) are sequences of characters.               *)

\* nodes of the value sanitizeData is called with
MaxNodes == 3
\* entries of one object, items of one array
MaxEntries == 2

\* '[REDACTED]', line 213
Marker == [scalar |-> "[REDACTED]"]
\* the scalars of the inputs: a string, and the marker itself
Scalars == {[scalar |-> "v"], Marker}
IsScalar(v) == "scalar" \in DOMAIN v

\* String.prototype.toLowerCase on the characters the model's strings use
LowerOf(ch) == CASE ch = "P" -> "p" [] ch = "X" -> "x" [] OTHER -> ch
ToLowerCase(str) == [i \in DOMAIN str |-> LowerOf(str[i])]
\* String.prototype.includes
Includes(str, part) ==
    \E i \in 0..(Len(str) - Len(part)) : SubSeq(str, i + 1, i + Len(part)) = part

\* line 212: sensitiveFields.some(field =>
\*     key.toLowerCase().includes(field.toLowerCase()))
MatchesCaseSensitive(key, fields) ==
    \E j \in DOMAIN fields : Includes(key, fields[j])
Matches(key, fields) ==
    \E j \in DOMAIN fields : Includes(ToLowerCase(key), ToLowerCase(fields[j]))

\* line 213: the value stored under a matching key
RedactAgain(value) == IF value = Marker THEN [scalar |-> "v"] ELSE Marker
Redact(value) == Marker

\* const sanitized = {} (line 209) and data.map (line 207) make a new node
AllocateInPlace(heap, old, node) ==
    [heap |-> [heap EXCEPT ![old] = node], ref |-> old]
Allocate(heap, old, node) ==
    [heap |-> Append(heap, node), ref |-> Len(heap) + 1]

RECURSIVE SanitizeData(_, _, _)
RECURSIVE SanitizeItems(_, _, _, _)
\* the loop of lines 211-219 over an object's entries (keys # <<>>), and the
\* callback of map (line 207) over an array's items (no keys)
SanitizeItems(heap, keys, items, fields) ==
    IF items = <<>> THEN [heap |-> heap, outs |-> <<>>]
    ELSE LET first ==
                 IF keys # <<>> /\ Matches(Head(keys), fields)
                 THEN [heap |-> heap, out |-> Redact(Head(items))]
                 ELSE SanitizeData(heap, Head(items), fields)
             rest == SanitizeItems(first.heap,
                                   IF keys = <<>> THEN keys ELSE Tail(keys),
                                   Tail(items), fields)
         IN [heap |-> rest.heap, outs |-> <<first.out>> \o rest.outs]
\* sanitizeData(data, sensitiveFields): the heap after the call and the
\* value returned
SanitizeData(heap, data, fields) ==
    IF IsScalar(data) THEN [heap |-> heap, out |-> data]
    ELSE LET node == heap[data.ref]
             done == SanitizeItems(heap, node.keys, node.items, fields)
             made == Allocate(done.heap, data.ref,
                              [kind |-> node.kind, keys |-> node.keys,
                               items |-> done.outs])
         IN [heap |-> made.heap, out |-> [ref |-> made.ref]]

\* the keys and fragments of the model's calls: a key that matches "p" only
\* without regard to case, one that contains it, one that does not
KeyOrder == << <<"P">>, <<"x", "p">>, <<"x">> >>
KeyLists ==
    { [i \in DOMAIN ix |-> KeyOrder[ix[i]]] :
        ix \in { s \in UNION {[1..k -> DOMAIN KeyOrder] : k \in 0..MaxEntries} :
                   \A i, j \in DOMAIN s : i < j => s[i] < s[j] } }
FieldLists ==
    { <<>>, << <<"p">> >>, << <<"X">> >>, << <<"p", "x">> >>,
      << <<"p", "x">>, <<"p">> >> }

\* the inputs: heaps whose node i refers to nodes before i only (finite and
\* acyclic, possibly sharing), the value passed being the last node or, with
\* no node, a scalar
ValuesBelow(i) == Scalars \cup {[ref |-> r] : r \in 1..(i - 1)}
NodesAt(i) ==
    {[kind |-> "array", keys |-> <<>>, items |-> items] :
        items \in UNION {[1..k -> ValuesBelow(i)] : k \in 0..MaxEntries}}
    \cup
    UNION {{[kind |-> "object", keys |-> keys, items |-> items] :
               items \in [DOMAIN keys -> ValuesBelow(i)]} : keys \in KeyLists}
RECURSIVE Heaps(_)
Heaps(n) ==
    IF n = 0 THEN {<<>>}
    ELSE {Append(heap, node) : heap \in Heaps(n - 1), node \in NodesAt(n)}

\* the structure a value denotes, for comparing values by content
RECURSIVE Tree(_, _)
Tree(heap, v) ==
    IF IsScalar(v) THEN v
    ELSE [kind |-> heap[v.ref].kind, keys |-> heap[v.ref].keys,
          items |-> [i \in DOMAIN heap[v.ref].items |->
                        Tree(heap, heap[v.ref].items[i])]]

\* a caller's value and fragment list, before the first call
InitSanitize ==
    /\ \E n \in 0..MaxNodes : \E h \in Heaps(n) :
           /\ sanHeap = h
           /\ sanInput \in IF n = 0 THEN Scalars ELSE {[ref |-> n]}
    /\ sensitiveFields \in FieldLists
    /\ sanBefore = sanHeap
    /\ sanPc = "start"
    /\ sanitized = Marker
    /\ resanitized = Marker

\* const once = sanitizeData(x, fields)
SanitizeCall ==
    /\ sanPc = "start"
    /\ LET r == SanitizeData(sanHeap, sanInput, sensitiveFields)
       IN /\ sanHeap' = r.heap
          /\ sanitized' = r.out
    /\ sanPc' = "once"
    /\ UNCHANGED <<sanInput, sensitiveFields, sanBefore, resanitized>>

\* const twice = sanitizeData(once, fields)
SanitizeAgain ==
    /\ sanPc = "once"
    /\ LET r == SanitizeData(sanHeap, sanitized, sensitiveFields)
       IN /\ sanHeap' = r.heap
          /\ resanitized' = r.out
    /\ sanPc' = "twice"
    /\ UNCHANGED <<sanInput, sensitiveFields, sanBefore, sanitized>>

IdleSanitize ==
    /\ sanHeap = <<>>
    /\ sanInput = Marker
    /\ sensitiveFields = <<>>
    /\ sanBefore = <<>>
    /\ sanPc = "start"
    /\ sanitized = Marker
    /\ resanitized = Marker

-----------------------------------------------------------------------------
(* The four logger variants: ConsoleLogger (console-logger.ts lines        *)
(* 1-118), FileLogger (part_006), InMemoryLogger, CentralLogger (part_007) *)
(*                                                                         *)
(* FileLogger and CentralLogger write to a winston Logger, a stream: it    *)
(* emits 'finish' once, after end() was called and what was written has    *)
(* been flushed. The in-memory variant's backend is its list logs; the     *)
(* other variants' backend receives the records of handed.                 *)

\* emission calls made on the logger in one behaviour of SpecVariants
MaxHanded == 2
\* close() calls made on the logger in one behaviour
MaxCloseCalls == 3

Variants == {"console", "file", "memory", "central"}
\* the transport a CentralLogger is configured with: enableConsoleTransport,
\* enableFileTransport or loki.enabled
Transports == {"console", "file", "loki"}
UsesWinston == variant \in {"file", "central"}
CloseCalls == 1..MaxCloseCalls

\* String.prototype.substring(0, 8): a uuid has 36 characters, the other
\* strings of the model have fewer than 8
Substring8(str) ==
    IF \E i \in DOMAIN Uuid : Uuid[i] = str THEN "first8:" \o str ELSE str
\* if (context.x) ...: a falsy field is left out of the record
IfTruthy(v) == OrElse(v, Undefined)

\* the level the record reaches the backend with: ConsoleLogger passes the
\* upper-case name to log(); FileLogger.http calls logger.log('info', ...)
BackendLevel(kind, method) ==
    CASE kind = "console" ->
             (CASE method = "error" -> "ERROR" [] method = "warn" -> "WARN"
                [] method = "info" -> "INFO" [] method = "http" -> "HTTP"
                [] OTHER -> "DEBUG")
      [] kind = "file" /\ method = "http" -> "info"
      [] OTHER -> method

\* the context ids of the record each variant hands to its backend
\* ConsoleLogger.log, console-logger.ts lines 61-98
ConsoleIds(c) ==
    [traceId |-> IF IfTruthy(c.traceId) = Undefined THEN Undefined
                 ELSE Substring8(c.traceId),
     spanId |-> Undefined,
     userId |-> IfTruthy(c.userId),
     requestId |-> IF IfTruthy(c.requestId) = Undefined THEN Undefined
                   ELSE Substring8(c.requestId),
     sessionId |-> IF IfTruthy(c.sessionId) = Undefined
                      \/ (IfTruthy(c.userId) = Undefined
                          /\ IfTruthy(c.requestId) = Undefined)
                   THEN Undefined
                   ELSE Substring8(c.sessionId),
     correlationId |-> Undefined]
\* FileLogger.enrichLogData, part_006 lines 132-142
FileIds(c) == [IdsOf(c) EXCEPT !.spanId = Undefined]
\* CentralLogger: formatConsoleLog (lines 137-157) on the console
\* transport, winston.format.json() alone on the file transport (lines
\* 50-68), enrichWithContext (lines 120-135) on the Loki transport
CentralIds(via, c) ==
    CASE via = "console" ->
             [f \in IdFields |->
                 IF f = "traceId" /\ IfTruthy(c.traceId) # Undefined
                 THEN Substring8(c.traceId) ELSE Undefined]
      [] via = "file" -> [f \in IdFields |-> Undefined]
      [] OTHER -> [f \in IdFields |->
                     IF f = "traceId" THEN c.traceId ELSE IfTruthy(c[f])]
HandedIds(kind, via, c) ==
    CASE kind = "console" -> ConsoleIds(c)
      [] kind = "file" -> FileIds(c)
      [] OTHER -> CentralIds(via, c)

\* error/warn/info/http/debug of the variant constructed
VariantEmit(t, method) ==
    /\ alive[t]
    /\ Len(handed) + Len(logs) < MaxHanded
    /\ IF variant = "memory"
       THEN /\ AddLog(t, method)
            /\ UNCHANGED handed
       ELSE /\ UsesWinston => stream = "open"
            /\ LET g == GetContext(t, UuidsAt(MaxCtx + Len(handed) + 1))
               IN /\ handed' = Append(handed,
                        [level |-> BackendLevel(variant, method),
                         method |-> method,
                         context |-> HandedIds(variant, transport, g.val),
                         active |-> IdsOf(g.val),
                         unit |-> CurrentUnit(t)])
                  /\ threw' = (threw \/ g.isUndefined)
            /\ UNCHANGED <<ctxs, metas, alive, inherited, stack, logs, nLogged,
                           maxSize, last, units, unitInherited, unitStack>>
    /\ UNCHANGED <<variant, transport, stream, finishListeners, closePc>>

\* close(): ConsoleLogger and InMemoryLogger return Promise.resolve();
\* FileLogger (lines 125-130) and CentralLogger (lines 217-222) return a
\* promise that the stream's 'finish' event resolves, and call end().
\* The caller awaits each close() before the next.
CloseCall(k) ==
    /\ closePc[k] = "idle"
    /\ IF k = 1 THEN TRUE ELSE closePc[k - 1] = "resolved"
    /\ IF UsesWinston
       THEN /\ closePc' = [closePc EXCEPT ![k] = "pending"]
            /\ finishListeners' = finishListeners \cup {k}
            /\ stream' = IF stream = "open" THEN "ending" ELSE stream
       ELSE /\ closePc' = [closePc EXCEPT ![k] = "resolved"]
            /\ UNCHANGED <<finishListeners, stream>>
    /\ UNCHANGED <<variant, transport, handed>>

\* the stream has flushed and emits 'finish': the listeners registered so
\* far run
StreamFinish ==
    /\ stream = "ending"
    /\ stream' = "finished"
    /\ closePc' = [k \in CloseCalls |->
                      IF k \in finishListeners THEN "resolved" ELSE closePc[k]]
    /\ UNCHANGED <<variant, transport, handed, finishListeners>>

InitVariant ==
    /\ variant \in Variants
    /\ transport \in IF variant = "central" THEN Transports ELSE {"console"}
    /\ handed = <<>>
    /\ stream = "open"
    /\ finishListeners = {}
    /\ closePc = [k \in CloseCalls |-> "idle"]
IdleVariant ==
    /\ InitVariant
    /\ variant = "memory"

-----------------------------------------------------------------------------
(* The Express middlewares (express-middleware.ts)                         *)
(*                                                                         *)
(* One request. Under Express the middlewares after tracingMiddleware run  *)
(* inside its next() call, on the same synchronous chain (task 1) or on a  *)
(* continuation scheduled from it; the unit tests call each middleware     *)
(* directly with a mock request, a mock response and a mock next.          *)

Middlewares == {"tracing", "body", "performance", "user"}
Setups == {"express", "tests"}

\* JavaScript's null
Null == "<null>"
\* a ?? b
Coalesce(v, alt) == IF v \in {Undefined, Null} THEN alt ELSE v
\* if (v) on a string, null or undefined
Truthy(v) == v \notin {Undefined, Null, ""}

\* the tests' mockResponse has status, json, send, end, on, once and emit,
\* and no setHeader
HasSetHeader == setup = "express"
\* what req.get() returns for x-trace-id, x-request-id and x-user-id
RequestHeaders ==
    [xTraceId : {Undefined, "T"}, xRequestId : {Undefined, "R"},
     xUserId : {Undefined, "U"}]
\* the tests' mockRequest
MockHeaders == [xTraceId |-> Undefined, xRequestId |-> "R", xUserId |-> "U"]
\* what a userIdExtractor returns; Undefined also stands for no extractor
Extracted == {Undefined, Null, "A"}

NoResponse == [sent |-> FALSE, traceId |-> Undefined]
NoRecord == [logged |-> FALSE, traceId |-> Undefined]

\* tracingMiddleware, lines 13-34: the context literal of the request
TracingContext(h, ids) ==
    [traceId |-> Coalesce(h.xTraceId, Coalesce(h.xRequestId, ids[1])),
     spanId |-> ids[2], requestId |-> ids[3],
     userId |-> Coalesce(h.xUserId, Null),
     sessionId |-> Null, correlationId |-> Null, metadata |-> NoMap]

\* contextManager.run(context, fn), line 37: fn runs with context as store
EnterRunOutside(stk, ref) == stk
EnterRun(stk, ref) == Append(stk, ref)

\* task u runs code of this request that Express reached through
\* tracingMiddleware's next()
InChain(u) == alive[u] /\ (u = 1 => mwPc["tracing"] = "inNext")
\* a middleware after tracingMiddleware can be called on task u
Callable(u) ==
    /\ errPc = "idle"
    /\ IF setup = "express" THEN InChain(u) ELSE u = 1

\* the middleware calls next(); it returns when next() does
CallsNext(m) ==
    /\ mwPc' = [mwPc EXCEPT ![m] = "inNext"]
    /\ nextCalls' = [nextCalls EXCEPT ![m] = @ + 1]
\* an error leaves the middleware before it reached next()
Throws(m) ==
    /\ mwPc' = [mwPc EXCEPT ![m] = "threw"]
    /\ UNCHANGED nextCalls

\* tracingMiddleware, lines 11-91
TracingMiddleware ==
    /\ mwPc["tracing"] = "idle"
    /\ LET c == TracingContext(reqHeaders, HeapIds)
       IN /\ ctxs' = Append(ctxs, c)
          /\ IF ~HasSetHeader
             THEN \* line 39: res.setHeader is not a function
                  /\ Throws("tracing")
                  /\ UNCHANGED <<stack, resTraceHeader, jsonPatched, logCalls,
                                 incoming>>
             ELSE IF GetLoggerThrows
             THEN \* line 81, after the headers and the patches of res
                  /\ Throws("tracing")
                  /\ resTraceHeader' = c.traceId
                  /\ jsonPatched' = TRUE
                  /\ UNCHANGED <<stack, logCalls, incoming>>
             ELSE \* lines 81-89: 'Incoming request' is logged, next() is
                  \* called inside run()
                  /\ CallsNext("tracing")
                  /\ resTraceHeader' = c.traceId
                  /\ jsonPatched' = TRUE
                  /\ logCalls' = logCalls + 1
                  /\ incoming' = incoming + 1
                  /\ stack' = [stack EXCEPT ![1] = EnterRun(@, Len(ctxs) + 1)]
    /\ UNCHANGED <<globalLogger, metas, alive, inherited, logs, nLogged, maxSize,
                   last, threw, units, unitInherited, unitStack, setup,
                   reqMethod, reqHasBody, reqHeaders, perfRegistered, resJson,
                   errorRecord, errPc, completed, headersSent>>

\* bodyLoggingMiddleware, lines 128-138
BodyLoggingMiddleware(u) ==
    /\ mwPc["body"] = "idle"
    /\ Callable(u)
    /\ IF reqMethod \in {"POST", "PUT", "PATCH"} /\ reqHasBody
       THEN IF GetLoggerThrows
            THEN Throws("body") /\ UNCHANGED logCalls
            ELSE CallsNext("body") /\ logCalls' = logCalls + 1
       ELSE CallsNext("body") /\ UNCHANGED logCalls
    /\ UNCHANGED <<globalLogger, contextVars, setup, reqMethod, reqHasBody,
                   reqHeaders, resTraceHeader, jsonPatched, perfRegistered,
                   resJson, errorRecord, errPc, incoming, completed, headersSent>>

\* performanceMetricsMiddleware, lines 145-179: the logger is used by the
\* 'finish' listener only
PerformanceMetricsMiddleware(u) ==
    /\ mwPc["performance"] = "idle"
    /\ Callable(u)
    /\ perfRegistered' = TRUE
    /\ CallsNext("performance")
    /\ UNCHANGED <<loggerVars, contextVars, setup, reqMethod, reqHasBody,
                   reqHeaders, resTraceHeader, jsonPatched, resJson,
                   errorRecord, errPc, incoming, completed, headersSent>>

\* userContextMiddleware, lines 231-242; req.user is not set
UserContextMiddleware(u, extracted) ==
    /\ mwPc["user"] = "idle"
    /\ Callable(u)
    /\ LET userId == Coalesce(extracted, Coalesce(reqHeaders.xUserId, Undefined))
       IN IF Truthy(userId)
          THEN Set(u, "userId", userId)
          ELSE UNCHANGED contextVars
    /\ CallsNext("user")
    /\ UNCHANGED <<loggerVars, setup, reqMethod, reqHasBody, reqHeaders,
                   resTraceHeader, jsonPatched, perfRegistered, resJson,
                   errorRecord, errPc, incoming, completed, headersSent>>

\* the next() a middleware called returns, and the middleware with it; for
\* tracingMiddleware this ends run(), once everything that runs
\* synchronously inside its next() has returned
NextReturns(m) ==
    /\ mwPc[m] = "inNext"
    /\ m = "tracing" => \A n \in Middlewares \ {m} : mwPc[n] # "inNext"
    /\ mwPc' = [mwPc EXCEPT ![m] = "returned"]
    /\ stack' = IF m = "tracing" THEN [stack EXCEPT ![1] = LeaveScope(@)]
                ELSE stack
    /\ UNCHANGED <<loggerVars, ctxs, metas, alive, inherited, logs, nLogged,
                   maxSize, last, threw, units, unitInherited, unitStack,
                   setup, reqMethod, reqHasBody, reqHeaders, nextCalls,
                   resTraceHeader, jsonPatched, perfRegistered, resJson,
                   errorRecord, errPc, incoming, completed, headersSent>>

\* line 116: contextManager.get('traceId')
ErrorResponseTraceId(u) ==
    View(GetContext(u, ReturnedIds).val, metas)["traceId"]

\* the wrapper of res.send, lines 65-78: the records it emits
CompletedBySend == IF jsonPatched /\ ~headersSent THEN 1 ELSE 0
\* the wrapper of res.json, lines 50-61, emits one record and calls the
\* original res.json, which emits the body through this.send: the wrapper
\* of res.send, while no header has been sent
CompletedByJson == (IF jsonPatched THEN 1 ELSE 0) + CompletedBySend

\* a handler reached through next() answers with res.send(text)
ResSend(u) ==
    /\ setup = "express"
    /\ Callable(u)
    /\ ~headersSent
    /\ headersSent' = TRUE
    /\ completed' = completed + CompletedBySend
    /\ logCalls' = logCalls + CompletedBySend
    /\ UNCHANGED <<globalLogger, contextVars, setup, reqMethod, reqHasBody,
                   reqHeaders, mwPc, nextCalls, resTraceHeader, jsonPatched,
                   perfRegistered, resJson, errorRecord, errPc, incoming>>

\* a handler reached through next() answers with res.json(body)
ResJson(u) ==
    /\ setup = "express"
    /\ Callable(u)
    /\ ~headersSent
    /\ headersSent' = TRUE
    /\ completed' = completed + CompletedByJson
    /\ logCalls' = logCalls + CompletedByJson
    /\ UNCHANGED <<globalLogger, contextVars, setup, reqMethod, reqHasBody,
                   reqHeaders, mwPc, nextCalls, resTraceHeader, jsonPatched,
                   perfRegistered, resJson, errorRecord, errPc, incoming>>

\* errorLoggingMiddleware, lines 98-121, for an error of this request: one
\* raised on task u by code reached through next(), or the one
\* tracingMiddleware threw, which the router hands over outside run()
ErrorLoggingMiddleware(u) ==
    /\ setup = "express"
    /\ errPc = "idle"
    /\ ~headersSent
    /\ \/ InChain(u)
       \/ u = 1 /\ mwPc["tracing"] = "threw"
    /\ IF GetLoggerThrows
       THEN \* line 99
            /\ errPc' = "threw"
            /\ UNCHANGED <<logCalls, errorRecord, resJson, completed,
                           headersSent>>
       ELSE \* the record is formatted under the context of the call
            \* (logger.ts lines 123 and 138); res.json is the wrapper of
            \* lines 50-61 when tracingMiddleware installed it
            /\ errPc' = "returned"
            /\ errorRecord' = [logged |-> TRUE,
                               traceId |-> GetContext(u, EntryIds).val.traceId]
            /\ resJson' = [sent |-> TRUE, traceId |-> ErrorResponseTraceId(u)]
            /\ logCalls' = logCalls + 1 + CompletedByJson
            /\ completed' = completed + CompletedByJson
            /\ headersSent' = TRUE
    /\ UNCHANGED <<globalLogger, contextVars, setup, reqMethod, reqHasBody,
                   reqHeaders, mwPc, nextCalls, resTraceHeader, jsonPatched,
                   perfRegistered, incoming>>

\* code reached through next() schedules a continuation
Continue(u) ==
    /\ setup = "express"
    /\ mwPc["tracing"] = "inNext"
    /\ Fork(1, u)

\* the application initialises the logger before it serves the request
AtStartup == setup = "express" /\ \A m \in Middlewares : mwPc[m] = "idle"

InitRequest ==
    /\ setup \in Setups
    /\ reqMethod \in {"GET", "POST"}
    /\ reqHasBody \in BOOLEAN
    /\ reqHeaders \in IF setup = "tests" THEN {MockHeaders} ELSE RequestHeaders
    /\ mwPc = [m \in Middlewares |-> "idle"]
    /\ nextCalls = [m \in Middlewares |-> 0]
    /\ resTraceHeader = Undefined
    /\ jsonPatched = FALSE
    /\ perfRegistered = FALSE
    /\ resJson = NoResponse
    /\ errorRecord = NoRecord
    /\ errPc = "idle"
    /\ incoming = 0
    /\ completed = 0
    /\ headersSent = FALSE
IdleRequest ==
    /\ InitRequest
    /\ setup = "express"
    /\ reqMethod = "GET"
    /\ ~reqHasBody
    /\ reqHeaders = MockHeaders

-----------------------------------------------------------------------------
(* The two global loggers: logger.ts (initializeLogger / getLogger) and     *)
(* logger-factory.ts (initGlobalLogger / getGlobalLogger)                  *)

\* initGlobalLogger calls made in one behaviour
MaxInits == 2

\* LoggerType
LoggerTypes == {"central", "in-memory", "console", "file"}
\* logger-factory.ts: globalLogger = null
NoLogger == [type |-> "none", n |-> 0]
NotCalled == [fn |-> "none", result |-> NoLogger, threw |-> FALSE]

\* getGlobalLogger, lines 271-278: throws while the factory's own
\* globalLogger is null
GetGlobalLoggerThrows == factoryLogger = NoLogger

\* initGlobalLogger(options), lines 252-266; n tells one created logger
\* from another
InitGlobalLogger(type, hasConfig) ==
    /\ initCalls < MaxInits
    /\ initCalls' = initCalls + 1
    /\ IF type = "central" /\ ~hasConfig
       THEN \* line 256
            UNCHANGED <<factoryLogger, created>>
       ELSE \* CentralLogger for central, LoggerFactory.create otherwise
            /\ factoryLogger' = [type |-> type, n |-> initCalls + 1]
            /\ created' = factoryLogger'
    /\ UNCHANGED <<got, loggerVars>>

\* the logger.ts instance, created by initializeLogger
TheCentralLogger == [type |-> "central", n |-> 0]

\* a caller calls getLogger() (logger.ts lines 232-237)
GetLoggerCall ==
    /\ got' = [fn |-> "getLogger",
               result |-> IF GetLoggerThrows THEN NoLogger ELSE TheCentralLogger,
               threw |-> GetLoggerThrows]
    /\ UNCHANGED <<factoryLogger, initCalls, created, loggerVars>>

\* a caller calls getGlobalLogger()
GetGlobalLoggerCall ==
    /\ got' = [fn |-> "getGlobalLogger", result |-> factoryLogger,
               threw |-> GetGlobalLoggerThrows]
    /\ UNCHANGED <<factoryLogger, initCalls, created, loggerVars>>

InitFactory ==
    /\ factoryLogger = NoLogger
    /\ initCalls = 0
    /\ created = NoLogger
    /\ got = NotCalled
IdleFactory == InitFactory

-----------------------------------------------------------------------------
(* A caller that uses contextManager and the in-memory logger outside       *)
(* every scope: task 1 with no run() entered, its calls kept in order       *)

\* the call just made is appended to the caller's history
Noted(op, key, value) ==
    /\ Len(calls) < MaxOutsideCalls
    /\ calls' = Append(calls, [op |-> op, key |-> key, value |-> value])

OutsideGet(key) == Get(1, key) /\ Noted("get", key, last'.value)
OutsideSet(key, value) == Set(1, key, value) /\ Noted("set", key, value)
OutsideAddMetadata(value) ==
    AddMetadata(1, value) /\ Noted("set", "metadata", value)
OutsideEmit(level) == Emit(1, level) /\ UNCHANGED calls

InitHistory == calls = <<>>
IdleHistory == InitHistory

\* the components a specification does not move stay as constructed
IdleBreaker ==
    /\ InitBreaker
    /\ failureThreshold = 1
IdleRetry ==
    /\ InitRetry
    /\ maxRetries = 0
    /\ ~fnAlwaysFails
    /\ fnThrowsError

vars == <<loggerVars, breakerVars, retryVars, contextVars, sanitizeVars,
          variantVars, requestVars, factoryVars, historyVars>>

BreakerInit ==
    InitLogger /\ InitBreaker /\ IdleRetry /\ InitContextStore /\ IdleSanitize /\ IdleVariant /\ IdleRequest /\ IdleFactory /\ IdleHistory

BreakerNext ==
    \/ InitializeLogger /\ UNCHANGED <<historyVars, factoryVars, requestVars, breakerVars, retryVars, contextVars, sanitizeVars, variantVars>>
    \/ Tick /\ UNCHANGED <<historyVars, factoryVars, requestVars, retryVars, contextVars, sanitizeVars, variantVars>>
    \/ (\E c \in Calls : ExecuteCall(c)) /\ UNCHANGED <<historyVars, factoryVars, requestVars, retryVars, contextVars, sanitizeVars, variantVars>>
    \/ (\E c \in Calls : FnResolves(c)) /\ UNCHANGED <<historyVars, factoryVars, requestVars, retryVars, contextVars, sanitizeVars, variantVars>>
    \/ (\E c \in Calls : FnRejects(c)) /\ UNCHANGED <<historyVars, factoryVars, requestVars, retryVars, contextVars, sanitizeVars, variantVars>>

SpecBreaker == BreakerInit /\ [][BreakerNext]_vars

RetryInit ==
    InitLogger /\ InitRetry /\ IdleBreaker /\ InitContextStore /\ IdleSanitize /\ IdleVariant /\ IdleRequest /\ IdleFactory /\ IdleHistory

RetryNext ==
    \/ InitializeLogger /\ UNCHANGED <<historyVars, factoryVars, requestVars, breakerVars, retryVars, contextVars, sanitizeVars, variantVars>>
    \/ RetryCall /\ UNCHANGED <<historyVars, factoryVars, requestVars, breakerVars, contextVars, sanitizeVars, variantVars>>
    \/ RetryFnResolves /\ UNCHANGED <<historyVars, factoryVars, requestVars, breakerVars, contextVars, sanitizeVars, variantVars>>
    \/ RetryExhausted /\ UNCHANGED <<historyVars, factoryVars, requestVars, breakerVars, contextVars, sanitizeVars, variantVars>>
    \/ RetryBackoff /\ UNCHANGED <<historyVars, factoryVars, requestVars, breakerVars, contextVars, sanitizeVars, variantVars>>
    \/ RetryTimerFires /\ UNCHANGED <<historyVars, factoryVars, requestVars, breakerVars, contextVars, sanitizeVars, variantVars>>

SpecRetry == RetryInit /\ [][RetryNext]_vars

ContextInit ==
    InitLogger /\ IdleBreaker /\ IdleRetry /\ InitContextStore /\ IdleSanitize /\ IdleVariant /\ IdleRequest /\ IdleFactory /\ IdleHistory

ContextNext ==
    \/ (\E t \in Tasks, p \in Partials : Establish(t, p))
          /\ UNCHANGED <<historyVars, factoryVars, requestVars, loggerVars, breakerVars, retryVars, sanitizeVars, variantVars>>
    \/ (\E t \in Tasks : Return(t))
          /\ UNCHANGED <<historyVars, factoryVars, requestVars, loggerVars, breakerVars, retryVars, sanitizeVars, variantVars>>
    \/ (\E t, u \in Tasks : Fork(t, u))
          /\ UNCHANGED <<historyVars, factoryVars, requestVars, loggerVars, breakerVars, retryVars, sanitizeVars, variantVars>>
    \/ (\E t \in Tasks, key \in GetKeys : Get(t, key))
          /\ UNCHANGED <<historyVars, factoryVars, requestVars, loggerVars, breakerVars, retryVars, sanitizeVars, variantVars>>
    \/ (\E t \in Tasks, key \in SetKeys, value \in SetValues : Set(t, key, value))
          /\ UNCHANGED <<historyVars, factoryVars, requestVars, loggerVars, breakerVars, retryVars, sanitizeVars, variantVars>>
    \/ (\E t \in Tasks, value \in MetaValues : AddMetadata(t, value))
          /\ UNCHANGED <<historyVars, factoryVars, requestVars, loggerVars, breakerVars, retryVars, sanitizeVars, variantVars>>
    \/ (\E t \in Tasks, value \in SetValues : SetContext(t, value))
          /\ UNCHANGED <<historyVars, factoryVars, requestVars, loggerVars, breakerVars, retryVars, sanitizeVars, variantVars>>
    \/ (\E t \in Tasks, level \in LogLevels : Log(t, level))
          /\ UNCHANGED <<historyVars, factoryVars, requestVars, loggerVars, breakerVars, retryVars, sanitizeVars, variantVars>>

SpecContext == ContextInit /\ [][ContextNext]_vars

\* one InMemoryLogger constructed with any maxSize option, logged to outside
\* every scope
RecordsInit ==
    /\ InitLogger /\ IdleBreaker /\ IdleRetry /\ IdleSanitize /\ IdleVariant /\ IdleRequest /\ IdleFactory /\ IdleHistory
    /\ \E option \in MaxSizeOptions :
           /\ maxSize = Constructed(option)
           /\ ctxs = <<>> /\ metas = <<>>
           /\ alive = [t \in Tasks |-> t = 1]
           /\ inherited = [t \in Tasks |-> NoStore]
           /\ stack = [t \in Tasks |-> <<>>]
           /\ logs = <<>> /\ nLogged = 0
           /\ last = NoResult /\ threw = FALSE
           /\ units = <<>>
           /\ unitInherited = [t \in Tasks |-> 0]
           /\ unitStack = [t \in Tasks |-> <<>>]

RecordsNext ==
    (\E t \in Tasks, level \in Levels : Emit(t, level))
        /\ UNCHANGED <<historyVars, factoryVars, requestVars, loggerVars, breakerVars, retryVars, sanitizeVars, variantVars>>

SpecRecords == RecordsInit /\ [][RecordsNext]_vars

SanitizeInit ==
    InitLogger /\ IdleBreaker /\ IdleRetry /\ InitContextStore /\ InitSanitize
    /\ IdleVariant /\ IdleRequest /\ IdleFactory /\ IdleHistory

SanitizeNext ==
    \/ SanitizeCall
          /\ UNCHANGED <<historyVars, factoryVars, requestVars, loggerVars, breakerVars, retryVars, contextVars,
                       variantVars>>
    \/ SanitizeAgain
          /\ UNCHANGED <<historyVars, factoryVars, requestVars, loggerVars, breakerVars, retryVars, contextVars,
                       variantVars>>

SpecSanitize == SanitizeInit /\ [][SanitizeNext]_vars

VariantsInit ==
    /\ InitLogger /\ IdleBreaker /\ IdleRetry /\ InitContextStore
    /\ IdleSanitize /\ InitVariant /\ IdleRequest /\ IdleFactory /\ IdleHistory

VariantsNext ==
    \/ (\E t \in Tasks, p \in Partials : Establish(t, p))
          /\ UNCHANGED <<historyVars, factoryVars, requestVars, loggerVars, breakerVars, retryVars, sanitizeVars,
                         variantVars>>
    \/ (\E t \in Tasks : Return(t))
          /\ UNCHANGED <<historyVars, factoryVars, requestVars, loggerVars, breakerVars, retryVars, sanitizeVars,
                         variantVars>>
    \/ (\E t \in Tasks, method \in Levels : VariantEmit(t, method))
          /\ UNCHANGED <<historyVars, factoryVars, requestVars, loggerVars, breakerVars, retryVars, sanitizeVars>>
    \/ (\E k \in CloseCalls : CloseCall(k))
          /\ UNCHANGED <<historyVars, factoryVars, requestVars, loggerVars, breakerVars, retryVars, sanitizeVars,
                         contextVars>>
    \/ StreamFinish
          /\ UNCHANGED <<historyVars, factoryVars, requestVars, loggerVars, breakerVars, retryVars, sanitizeVars,
                         contextVars>>

\* the event loop delivers the stream's 'finish' once the stream has ended
SpecVariants ==
    VariantsInit /\ [][VariantsNext]_vars /\ WF_variantVars(StreamFinish)

RequestInit ==
    /\ InitLogger /\ IdleBreaker /\ IdleRetry /\ InitContextStore
    /\ IdleSanitize /\ IdleVariant /\ InitRequest /\ IdleFactory /\ IdleHistory

RequestNext ==
    \/ AtStartup /\ InitializeLogger
          /\ UNCHANGED <<historyVars, factoryVars, requestVars, breakerVars, retryVars, contextVars, sanitizeVars, variantVars>>
    \/ TracingMiddleware
          /\ UNCHANGED <<historyVars, factoryVars, breakerVars, retryVars, sanitizeVars, variantVars>>
    \/ (\E u \in Tasks : BodyLoggingMiddleware(u))
          /\ UNCHANGED <<historyVars, factoryVars, breakerVars, retryVars, sanitizeVars, variantVars>>
    \/ (\E u \in Tasks : PerformanceMetricsMiddleware(u))
          /\ UNCHANGED <<historyVars, factoryVars, breakerVars, retryVars, sanitizeVars, variantVars>>
    \/ (\E u \in Tasks, extracted \in Extracted : UserContextMiddleware(u, extracted))
          /\ UNCHANGED <<historyVars, factoryVars, breakerVars, retryVars, sanitizeVars, variantVars>>
    \/ (\E m \in Middlewares : NextReturns(m))
          /\ UNCHANGED <<historyVars, factoryVars, breakerVars, retryVars, sanitizeVars, variantVars>>
    \/ (\E u \in Tasks : Continue(u))
          /\ UNCHANGED <<historyVars, factoryVars, requestVars, loggerVars, breakerVars, retryVars, sanitizeVars, variantVars>>
    \/ (\E u \in Tasks : ErrorLoggingMiddleware(u))
          /\ UNCHANGED <<historyVars, factoryVars, breakerVars, retryVars, sanitizeVars, variantVars>>
    \/ (\E u \in Tasks : ResSend(u))
          /\ UNCHANGED <<historyVars, factoryVars, breakerVars, retryVars, sanitizeVars, variantVars>>
    \/ (\E u \in Tasks : ResJson(u))
          /\ UNCHANGED <<historyVars, factoryVars, breakerVars, retryVars, sanitizeVars, variantVars>>

SpecRequest == RequestInit /\ [][RequestNext]_vars

OutsideInit ==
    /\ InitLogger /\ IdleBreaker /\ IdleRetry /\ InitContextStore
    /\ IdleSanitize /\ IdleVariant /\ IdleRequest /\ IdleFactory /\ InitHistory

OutsideNext ==
    \/ (\E key \in GetKeys : OutsideGet(key))
          /\ UNCHANGED <<factoryVars, requestVars, loggerVars, breakerVars, retryVars, sanitizeVars, variantVars>>
    \/ (\E key \in SetKeys, value \in SetValues : OutsideSet(key, value))
          /\ UNCHANGED <<factoryVars, requestVars, loggerVars, breakerVars, retryVars, sanitizeVars, variantVars>>
    \/ (\E value \in MetaValues : OutsideAddMetadata(value))
          /\ UNCHANGED <<factoryVars, requestVars, loggerVars, breakerVars, retryVars, sanitizeVars, variantVars>>
    \/ (\E level \in Levels : OutsideEmit(level))
          /\ UNCHANGED <<factoryVars, requestVars, loggerVars, breakerVars, retryVars, sanitizeVars, variantVars>>

SpecOutside == OutsideInit /\ [][OutsideNext]_vars

FactoryInit ==
    /\ InitLogger /\ IdleBreaker /\ IdleRetry /\ InitContextStore
    /\ IdleSanitize /\ IdleVariant /\ IdleRequest /\ InitFactory /\ IdleHistory

FactoryNext ==
    \/ InitializeLogger /\ UNCHANGED <<historyVars, factoryVars, requestVars, breakerVars, retryVars, contextVars, sanitizeVars, variantVars>>
    \/ (\E type \in LoggerTypes, hasConfig \in BOOLEAN : InitGlobalLogger(type, hasConfig))
          /\ UNCHANGED <<historyVars, requestVars, breakerVars, retryVars, contextVars, sanitizeVars, variantVars>>
    \/ GetLoggerCall
          /\ UNCHANGED <<historyVars, requestVars, breakerVars, retryVars, contextVars, sanitizeVars, variantVars>>
    \/ GetGlobalLoggerCall
          /\ UNCHANGED <<historyVars, requestVars, breakerVars, retryVars, contextVars, sanitizeVars, variantVars>>

SpecFactory == FactoryInit /\ [][FactoryNext]_vars

-----------------------------------------------------------------------------
(* Claims about the circuit breaker, checked under SpecBreaker             *)

\* execute() call c is made in this step
Calling(c) == pc[c] = "idle" /\ pc'[c] # "idle"
\* execute() call c settles in this step after its fn() settled
Settling(c) == pc[c] = "awaiting" /\ pc'[c] = "done"
\* exactly failureThreshold calls have been made and fn failed in each
AfterNFailures ==
    /\ started = failureThreshold
    /\ \A d \in 1..started : pc[d] = "done" /\ fnResult[d] = "fail"

\* C1: from a new breaker, after failureThreshold calls whose fn failed the
\* state is 'open', and the next execute() made while no more than
\* resetTimeoutMs has passed rejects without invoking fn.
C1_OpenAfterThreshold ==
    [][ /\ AfterNFailures => state = "open"
        /\ AfterNFailures' => state' = "open"
        /\ (AfterNFailures /\ started' = started + 1
                /\ now - lastFailureTime <= ResetTimeoutMs)
              => /\ outcome'[started'] = "openError"
                 /\ pc'[started'] = "done"
                 /\ invocations' = invocations
                 /\ invocations = failureThreshold ]_vars

\* C1 witness: threshold 2, two failed calls, the third was rejected unrun
C1_Witness ==
    /\ failureThreshold = 2
    /\ started = 3
    /\ fnResult[1] = "fail" /\ fnResult[2] = "fail"
    /\ outcome[3] = "openError"
    /\ invocations = 2
    /\ state = "open"

\* C2 (as claimed): while a trial call admitted in half-open has not settled,
\* every other execute() call is rejected without invoking fn.
C2_SingleTrial ==
    [][ \A c \in Calls :
          (Calling(c) /\ \E d \in Calls \ {c} :
                            pc[d] = "awaiting" /\ admitted[d] = "half-open")
            => (pc'[c] = "done" /\ invocations' = invocations) ]_vars

\* C3 (as claimed), for a breaker whose logger is initialised: when the
\* trial call admitted in half-open succeeds the state becomes 'closed' and
\* the counter 0; when it fails the state becomes 'open' and the cooldown
\* restarts from this failure.
C3_TrialDecides ==
    [][ \A c \in Calls :
          (globalLogger /\ Settling(c) /\ admitted[c] = "half-open")
            => IF fnResult'[c] = "ok"
               THEN state' = "closed" /\ failureCount' = 0
               ELSE state' = "open" /\ lastFailureTime' = now ]_vars

\* C4: an execute() made while the breaker is open and no more than
\* resetTimeoutMs has passed since the last failure rejects without invoking
\* fn, leaves state, counter and last-failure time as they were and does not
\* call onStateChange.
C4_OpenRejectsUnchanged ==
    [][ \A c \in Calls :
          (Calling(c) /\ state = "open"
              /\ now - lastFailureTime <= ResetTimeoutMs)
            => /\ outcome'[c] = "openError"
               /\ pc'[c] = "done"
               /\ invocations' = invocations
               /\ state' = state
               /\ failureCount' = failureCount
               /\ lastFailureTime' = lastFailureTime
               /\ notified' = notified ]_vars

\* C4 witness: a call was rejected by the open breaker at the very
\* millisecond the timeout is reached (not yet exceeded)
C4_Witness ==
    /\ state = "open"
    /\ now - lastFailureTime = ResetTimeoutMs
    /\ \E c \in Calls : c = started /\ outcome[c] = "openError"

\* C5: the failure counter decreases only by being set to zero in a step
\* that moves the breaker into 'closed'; in every other step it stays or
\* grows.
C5_CounterResetOnlyOnClose ==
    [][ /\ failureCount' < failureCount
            => (failureCount' = 0 /\ state # "closed" /\ state' = "closed")
        /\ (failureCount' = 0 /\ failureCount # 0)
            => (state # "closed" /\ state' = "closed") ]_vars

\* C5 witness: a half-open trial succeeded and zeroed a counter that had
\* reached the threshold
C5_Witness ==
    /\ failureCount = 0
    /\ state = "closed"
    /\ \E c \in Calls : admitted[c] = "half-open" /\ outcome[c] = "resolved"

-----------------------------------------------------------------------------
(* Claims about retryWithBackoff, checked under SpecRetry                  *)

\* C6 (as claimed): when fn fails exactly k <= maxRetries times and then
\* succeeds, retryWithBackoff invokes it k+1 times and resolves with that
\* success value; when fn always fails, it invokes it maxRetries+1 times
\* and rejects with the error of the last attempt.
C6_RetryCounts ==
    rPc = "done" =>
        IF fnAlwaysFails
        THEN /\ rInvocations = maxRetries + 1
             /\ rResult.kind = "rejected"
             /\ rResult.error.src = "fn"
             /\ rResult.error.n = maxRetries + 1
        ELSE /\ rInvocations = fnFailures + 1
             /\ rResult.kind = "resolved"
             /\ rResult.n = fnFailures + 1

-----------------------------------------------------------------------------
(* Claims about the context store and the in-memory logger, checked under  *)
(* SpecContext                                                             *)

\* unit n's function has returned in every task that entered it
Returned(n) ==
    \A t \in Tasks : \A i \in DOMAIN unitStack[t] : unitStack[t][i] # n
\* every unit so far was established outside every other one
AllTopLevel == \A n \in DOMAIN units : units[n].parent = 0

\* C7: when units of work established by separate establish calls
\* interleave, what get() returns inside a unit and what a record logged
\* inside it carries is what that unit was given or wrote itself, never a
\* set() or addMetadata() of another unit. The code breaks this for
\* metadata: initContext copies the partial's metadata reference, so two
\* units given the same map see each other's addMetadata().
C7_UnitsIsolated ==
    AllTopLevel =>
        /\ last.unit # 0 => last.value = last.own
        /\ \A i \in DOMAIN logs :
               logs[i].unit # 0 => logs[i].context = logs[i].own

\* C8: a record emitted inside an establish-scoped unit of work, by the
\* task that established it or by a continuation it scheduled, carries for
\* every context field the unit's most recent set() of that field, or the
\* value the unit was established with when there was none.
C8_RecordCarriesLatestWrite ==
    \A i \in DOMAIN logs :
        logs[i].unit # 0 =>
            \A f \in IdFields : logs[i].context[f] = logs[i].own[f]
\* a continuation scheduled inside unit 1 logged after set("userId", "B")
\* replaced the "A" the unit was established with
C8_Witness ==
    \E i \in DOMAIN logs :
        /\ logs[i].task = 2
        /\ logs[i].unit = 1
        /\ unitInherited[2] = 1
        /\ logs[i].context.userId = "B"
        /\ logs[i].context.traceId = Uuid[1]

\* C9: with no context established no call raises, and the context a get()
\* reads or a record carries has a non-empty trace id.
C9_NoContextNeverFails ==
    /\ ~threw
    /\ (last.unit = 0 /\ last.key = "traceId")
           => last.value \notin {Undefined, ""}
    /\ \A i \in DOMAIN logs :
           logs[i].unit = 0 => logs[i].context.traceId \notin {Undefined, ""}
\* outside every scope get("traceId") returned a synthesized id and a
\* record was logged with one
C9_Witness ==
    /\ last.unit = 0
    /\ last.key = "traceId"
    /\ last.value = ReturnedIds[1]
    /\ \E i \in DOMAIN logs :
           logs[i].unit = 0 /\ logs[i].context.traceId = UuidsAt(MaxCtx + 1)[1]
    /\ ~threw

\* C10: as long as the enclosing scope itself has not set a field since a
\* nested scope started, every task in the enclosing scope reads, and would
\* log, the value the field had when the nested scope started, whatever
\* was set inside the nested scope.
C10_NestedSetInvisible ==
    \A n \in DOMAIN units : \A t \in Tasks :
        (alive[t] /\ CurrentUnit(t) = units[n].parent) =>
            \A k \in SetKeys \ units[n].touched :
                LET c == GetContext(t, ReturnedIds).val
                IN /\ View(c, metas)[k] = units[n].before[k]
                   /\ IdsOf(c)[k] = units[n].before[k]
\* the only task established unit 1 with userId "A", inside it unit 2, set
\* userId to "B" there, returned, and then read userId in unit 1: "A"
C10_Witness ==
    /\ ~alive[2]
    /\ Len(units) = 2
    /\ units[2].parent = 1
    /\ Returned(2)
    /\ units[2].expected.userId = "B"
    /\ units[2].before.userId = "A"
    /\ units[2].touched = {}
    /\ last.key = "userId"
    /\ last.unit = 1
    /\ last.value = "A"

\* C12: whatever happens after a log call (a set() on the ambient context,
\* the end of the scope, any step of any chain), every record getLogs()
\* already returned shows the same six context ids afterwards.
C12_StoredContextFixed ==
    [][\A i \in DOMAIN GetLogs :
          (i \in DOMAIN GetLogs' /\ GetLogs'[i].seq = GetLogs[i].seq)
              => GetLogs'[i].context = GetLogs[i].context]_vars
\* a record logged in unit 1 while its user id was "A" still shows "A" after
\* set("userId", "B") in that unit and after the unit's function returned
C12_Witness ==
    /\ Len(units) >= 1
    /\ Returned(1)
    /\ ctxs[1].userId = "B"
    /\ \E i \in DOMAIN GetLogs :
           logs[i].unit = 1 /\ GetLogs[i].context.userId = "A"

-----------------------------------------------------------------------------
(* Claims about the in-memory logger's store, checked under SpecRecords    *)

\* C11: after any sequence of log calls the stored records are at most
\* maxSize many and are exactly the most recent min(N, maxSize) of the N
\* appended, oldest first. The code breaks this for maxSize = 0:
\* logs.slice(-0) is logs.slice(0), the whole list, so nothing is discarded.
C11_BoundedMostRecent ==
    /\ Len(logs) <= maxSize
    /\ Len(logs) = Min(nLogged, maxSize)
    /\ \A i \in DOMAIN logs : logs[i].seq = nLogged - Len(logs) + i

-----------------------------------------------------------------------------
(* Claims about sanitizeData, checked under SpecSanitize                   *)

\* key contains fragment, letters compared without regard to case
ContainsIgnoringCase(key, fragment) ==
    \E i \in 0..(Len(key) - Len(fragment)) :
        \A j \in 1..Len(fragment) : LowerOf(key[i + j]) = LowerOf(fragment[j])
Sensitive(key, fields) ==
    \E j \in DOMAIN fields : ContainsIgnoringCase(key, fields[j])
\* in y, at every depth, every sensitive key of a mapping has the marker
RECURSIVE AllSensitiveRedacted(_, _)
AllSensitiveRedacted(y, fields) ==
    IsScalar(y) \/
    \A i \in DOMAIN y.items :
        /\ (y.kind = "object" /\ Sensitive(y.keys[i], fields))
               => y.items[i] = Marker
        /\ AllSensitiveRedacted(y.items[i], fields)
\* y has x's shape along every path without a sensitive key, and x's
\* scalars at the same positions
RECURSIVE ScalarsKept(_, _, _)
ScalarsKept(x, y, fields) ==
    IF IsScalar(x) THEN y = x
    ELSE /\ ~IsScalar(y)
         /\ y.kind = x.kind
         /\ y.keys = x.keys
         /\ DOMAIN y.items = DOMAIN x.items
         /\ \A i \in DOMAIN x.items :
                \/ x.kind = "object" /\ Sensitive(x.keys[i], fields)
                \/ ScalarsKept(x.items[i], y.items[i], fields)
\* the value passed to the first call, as it was then, and the values returned
InputTree == Tree(sanBefore, sanInput)
OnceTree == Tree(sanHeap, sanitized)
TwiceTree == Tree(sanHeap, resanitized)
\* {x: [{P: "v", x: "v"}]} and what it becomes with fields ["p"]
NestedSecret ==
    [kind |-> "object", keys |-> << <<"x">> >>, items |-> <<
        [kind |-> "array", keys |-> <<>>, items |-> <<
            [kind |-> "object", keys |-> << <<"P">>, <<"x">> >>,
             items |-> << [scalar |-> "v"], [scalar |-> "v"] >>] >>] >>]
NestedRedacted ==
    [kind |-> "object", keys |-> << <<"x">> >>, items |-> <<
        [kind |-> "array", keys |-> <<>>, items |-> <<
            [kind |-> "object", keys |-> << <<"P">>, <<"x">> >>,
             items |-> << Marker, [scalar |-> "v"] >>] >>] >>]

\* C13: in sanitizeData(x, fields) every mapping key that contains a
\* fragment of fields, without regard to case, has the value '[REDACTED]',
\* at every depth and inside arrays, and every scalar under a path of
\* non-matching keys is the scalar at the same position of x.
C13_SensitiveKeysRedacted ==
    sanPc # "start" =>
        /\ AllSensitiveRedacted(OnceTree, sensitiveFields)
        /\ ScalarsKept(InputTree, OnceTree, sensitiveFields)
C13_Witness ==
    /\ sanPc = "once"
    /\ sensitiveFields = << <<"p">> >>
    /\ InputTree = NestedSecret
    /\ OnceTree = NestedRedacted

\* C14: sanitizeData(sanitizeData(x, fields), fields) is structurally equal
\* to sanitizeData(x, fields).
C14_Idempotent ==
    sanPc = "twice" => TwiceTree = OnceTree
C14_Witness ==
    /\ sanPc = "twice"
    /\ sensitiveFields = << <<"p">> >>
    /\ InputTree = NestedSecret
    /\ TwiceTree = NestedRedacted
    /\ resanitized # sanitized

\* C15: after sanitizeData(x, fields) returns, every mapping and array that
\* existed before the call has the contents it had before the call.
C15_InputNotMutated ==
    sanPc # "start" =>
        \A r \in DOMAIN sanBefore : sanHeap[r] = sanBefore[r]
C15_Witness ==
    /\ sanPc = "once"
    /\ sensitiveFields = << <<"p">> >>
    /\ InputTree = NestedSecret
    /\ Tree(sanHeap, sanInput) = NestedSecret
    /\ OnceTree = NestedRedacted
    /\ sanitized.ref > Len(sanBefore)

-----------------------------------------------------------------------------
(* Claims about the logger variants, checked under SpecVariants            *)

\* C16: on every variant, a second close() issued after the first close()
\* has resolved resolves as well. The code breaks this for FileLogger and
\* CentralLogger: the stream has already emitted 'finish', end() on an ended
\* stream emits nothing, and the listener the second call registered never
\* runs.
C16_SecondCloseResolves ==
    (closePc[1] = "resolved" /\ closePc[2] # "idle") ~> (closePc[2] = "resolved")

\* C17: in every variant the record handed to the backend carries the
\* trace, span, request, user, session and correlation ids of the context
\* that was active at the emission call. The code breaks this outside the
\* in-memory variant: FileLogger.enrichLogData leaves out spanId,
\* ConsoleLogger prints shortened trace, request and session ids and no
\* span or correlation id, and CentralLogger's console and file transports
\* are not given the context's ids.
C17_RecordCarriesActiveIds ==
    /\ \A i \in DOMAIN handed :
           \A f \in IdFields : handed[i].context[f] = handed[i].active[f]
    /\ \A i \in DOMAIN logs :
           \A f \in IdFields : logs[i].context[f] = logs[i].own[f]

-----------------------------------------------------------------------------
(* Claims about the audit trail of the resilience wrappers                 *)

\* execute() call c is rejected in this step because the circuit is open
OpenRejection(c) == outcome[c] # "openError" /\ outcome'[c] = "openError"

\* retryWithBackoff rejects in this step after fn failed on the last attempt
ExhaustedRejection ==
    /\ rPc = "awaiting" /\ rPc' = "done"
    /\ LastAttempt(attempt)
    /\ rResult'.kind = "rejected"

\* C19: a step in which retryWithBackoff rejects because its attempts are
\* exhausted, or execute() rejects because the circuit is open, hands one
\* record to the logger before the error is raised. The code breaks this:
\* execute() throws the open-circuit error at line 98 without logging.
C19_LogBeforeRaise ==
    [][((\E c \in Calls : OpenRejection(c)) \/ ExhaustedRejection)
          => logCalls' = logCalls + 1]_vars

\* the retry half of C19 alone, with the logger initialised
RetryExhaustionLogged ==
    [][(ExhaustedRejection /\ globalLogger) => logCalls' = logCalls + 1]_vars

-----------------------------------------------------------------------------
(* Claims about the Express middlewares, checked under SpecRequest         *)

\* C18: when tracingMiddleware ran first for a request and an error of that
\* request reaches errorLoggingMiddleware, the traceId of the JSON error
\* response equals the response's x-trace-id header and the trace id of the
\* context under which the error-level record was logged.
C18_TraceIdsAgree ==
    (resJson.sent /\ mwPc["tracing"] # "idle")
        => /\ resJson.traceId = resTraceHeader
           /\ errorRecord.logged
           /\ resJson.traceId = errorRecord.traceId

\* an error response was sent from a continuation after tracingMiddleware
\* had returned, for a request that carried no trace or request id header
C18_Witness ==
    /\ resJson.sent
    /\ mwPc["tracing"] = "returned"
    /\ reqHeaders.xTraceId = Undefined /\ reqHeaders.xRequestId = Undefined
    /\ resJson.traceId = ctxs[1].traceId

\* C20: under the setup of the tests (mock request and response, logger
\* never initialised) each of the four middlewares has called next exactly
\* once when it returns. The code breaks this: tracingMiddleware throws at
\* res.setHeader, which the mock response lacks, and bodyLoggingMiddleware
\* throws at getLogger() for a POST with a body; neither reaches next().
C20_NextExactlyOnce ==
    setup = "tests"
        => \A m \in Middlewares :
               mwPc[m] \in {"returned", "threw"} => nextCalls[m] = 1

-----------------------------------------------------------------------------
(* Claims about the wrappers' dependence on the global logger              *)

\* C21: while the global logger has never been initialised, a
\* retryWithBackoff over an always-failing fn still invokes it maxRetries+1
\* times and rejects with fn's error, and no execute() of the breaker
\* rejects with anything but fn's error or the open-circuit error. The code
\* breaks both halves: the getLogger() calls at lines 44, 59, 116 and 131
\* throw inside the wrappers.
C21_IndependentOfLogger ==
    ~globalLogger =>
        /\ (fnAlwaysFails /\ rPc = "done")
              => /\ rInvocations = maxRetries + 1
                 /\ rResult.kind = "rejected"
                 /\ rResult.error.src = "fn"
        /\ \A c \in Calls : outcome[c] # "loggerError"

-----------------------------------------------------------------------------
(* Claims about the records of the tracing stage, checked under SpecRequest *)

\* the response of a request that went through tracingMiddleware was emitted
Answered == headersSent /\ mwPc["tracing"] \in {"inNext", "returned"}

\* C22: for a request handled after tracingMiddleware, once the response is
\* emitted exactly one 'Incoming request' record and exactly one 'Request
\* completed' record have been emitted, through res.json as through
\* res.send. The code breaks this for res.json: its wrapper emits the
\* record and the original res.json then goes through the wrapper of
\* res.send, which emits it again.
C22_OneEntryOneExit ==
    Answered => (incoming = 1 /\ completed = 1)

-----------------------------------------------------------------------------
(* Further claims about the circuit breaker, checked under SpecBreaker     *)

\* C23: with the logger initialised, the success of a call that was
\* admitted while the breaker was closed and settles while it is half-open
\* leaves the state half-open and the failure counter as it was: only the
\* trial call closes the breaker. The code breaks this: the success branch
\* tests this.state, not the call.
C23_OnlyTrialCloses ==
    [][ \A c \in Calls :
          (globalLogger /\ Settling(c) /\ admitted[c] = "closed"
              /\ fnResult'[c] = "ok" /\ state = "half-open")
            => (state' = "half-open" /\ failureCount' = failureCount) ]_vars

-----------------------------------------------------------------------------
(* Further claims about the context store, checked under SpecContext       *)

\* C24: two scopes established from partials that reference the same
\* metadata map are isolated: what each scope's context shows as metadata
\* is what that scope was given or added itself. The code breaks this:
\* initContext stores the partial's map itself, so an addMetadata() in one
\* scope writes the map the other scope reads.
C24_SameMapIsolated ==
    \A n, m \in DOMAIN units :
        (n # m /\ ctxs[n].metadata # NoMap
               /\ ctxs[n].metadata = ctxs[m].metadata)
            => View(ctxs[n], metas).metadata = units[n].meta


\* C25: after setContext({userId: v}) returned inside a scope, getContext()
\* and get('userId') in that scope show v. The code breaks this:
\* setContext builds the merged object and returns it without storing it
\* or writing to the ambient context.
C25_SetContextSets ==
    (last.key = "setContext" /\ last.unit # 0)
        => \A t \in Tasks :
               (alive[t] /\ CurrentUnit(t) = last.unit)
                   => View(GetContext(t, ReturnedIds).val, metas)["userId"]
                          = last.value

-----------------------------------------------------------------------------
(* Further claims about the logger variants, checked under SpecVariants    *)

\* the name of a level label, whatever its case
LevelName(label) ==
    CASE label = "ERROR" -> "error" [] label = "WARN" -> "warn"
      [] label = "INFO" -> "info" [] label = "HTTP" -> "http"
      [] label = "DEBUG" -> "debug" [] OTHER -> label

\* C26: in every variant each of error, warn, info, http and debug hands
\* the backend a record at the level of the same name. The code breaks
\* this: FileLogger.http logs at level 'info'.
C26_LevelOfSameName ==
    /\ \A i \in DOMAIN handed : LevelName(handed[i].level) = handed[i].method
    /\ \A i \in DOMAIN logs : logs[i].level \in Levels

-----------------------------------------------------------------------------
(* Claims about the global loggers, checked under SpecFactory              *)

\* C27: before any initialisation call getLogger() and getGlobalLogger()
\* both throw; once initializeLogger has been called both return a logger;
\* and once an initGlobalLogger call has returned, getGlobalLogger()
\* returns the logger the last such call created. The code breaks the
\* middle part: initializeLogger assigns the globalLogger of logger.ts,
\* getGlobalLogger reads the one of logger-factory.ts.
C27_GettersFollowInit ==
    /\ (~globalLogger /\ initCalls = 0)
          => (GetLoggerThrows /\ GetGlobalLoggerThrows)
    /\ globalLogger => (~GetLoggerThrows /\ ~GetGlobalLoggerThrows)
    /\ created # NoLogger => (~GetGlobalLoggerThrows /\ factoryLogger = created)

\* the parts of C27 that do not involve initializeLogger
GettersFollowOwnInit ==
    /\ (~globalLogger /\ initCalls = 0)
          => (GetLoggerThrows /\ GetGlobalLoggerThrows)
    /\ globalLogger => ~GetLoggerThrows
    /\ created # NoLogger => (~GetGlobalLoggerThrows /\ factoryLogger = created)

-----------------------------------------------------------------------------
(* Claims about the breaker's failure counter, checked under SpecBreaker   *)

\* calls whose fn has failed since the breaker was constructed
Failed == Cardinality({c \in Calls : fnResult[c] = "fail"})
\* the breaker has not left 'open' since its construction: no call was
\* admitted as a trial, and no setState('half-open') threw out of execute()
NeverHalfOpen ==
    \A c \in Calls :
        /\ admitted[c] # "half-open"
        /\ ~(outcome[c] = "loggerError" /\ fnResult[c] = "none")

\* C28: while the breaker is closed a successful execute() leaves the
\* failure counter and the state as they are, and a breaker that has not
\* been through half-open is open exactly when the calls failed since its
\* construction number failureThreshold or more, whatever successes came
\* between them.
C28_SuccessKeepsCount ==
    [][ /\ \A c \in Calls :
              (Settling(c) /\ fnResult'[c] = "ok" /\ state = "closed")
                => (failureCount' = failureCount /\ state' = "closed")
        /\ NeverHalfOpen' =>
              /\ failureCount' = Failed'
              /\ (state' = "open") = (Failed' >= failureThreshold) ]_vars

\* threshold 2: a failure, then a success, then the failure that opens
C28_Witness ==
    /\ failureThreshold = 2
    /\ fnResult[1] = "fail" /\ fnResult[2] = "ok" /\ fnResult[3] = "fail"
    /\ pc[1] = "done" /\ pc[2] = "done" /\ pc[3] = "done"
    /\ outcome[2] = "resolved"
    /\ NeverHalfOpen
    /\ state = "open"
    /\ failureCount = 2


\* C29: between the steps of execute(), a closed breaker has a failure
\* counter below failureThreshold, and an open or half-open breaker has a
\* counter of at least failureThreshold and a recorded last-failure time.
C29_StateMatchesCounter ==
    /\ state = "closed" => failureCount < failureThreshold
    /\ state \in {"open", "half-open"}
          => (failureCount >= failureThreshold /\ lastFailureTime # NoFailureYet)

\* threshold 2: the breaker reopened from half-open with a counter above
\* the threshold
C29_Witness ==
    /\ failureThreshold = 2
    /\ state = "open"
    /\ failureCount = 3
    /\ \E c \in Calls : admitted[c] = "half-open" /\ fnResult[c] = "fail"

-----------------------------------------------------------------------------
(* Claims about calls outside every scope, checked under SpecOutside       *)

\* C30: with no context established, a value written by set() or
\* addMetadata() is not what a later get() of that key returns, two get()
\* calls for the trace id return different ids, and no two records carry
\* the same trace id.
C30_NothingKeptOutsideScopes ==
    /\ \A i, j \in DOMAIN calls :
          (i < j /\ calls[i].op = "set" /\ calls[j].op = "get"
                 /\ calls[i].key = calls[j].key)
            => calls[j].value # calls[i].value
    /\ \A i, j \in DOMAIN calls :
          (i < j /\ calls[i].op = "get" /\ calls[j].op = "get"
                 /\ calls[i].key = "traceId" /\ calls[j].key = "traceId")
            => calls[j].value # calls[i].value
    /\ \A i, j \in DOMAIN logs :
          i # j => logs[i].context.traceId # logs[j].context.traceId

\* set('userId', 'A'), then get('traceId') twice, and two records
C30_Witness ==
    /\ Len(calls) = 3
    /\ calls[1] = [op |-> "set", key |-> "userId", value |-> "A"]
    /\ calls[2].op = "get" /\ calls[2].key = "traceId"
    /\ calls[3].op = "get" /\ calls[3].key = "traceId"
    /\ calls[2].value \notin {Undefined, ""}
    /\ Len(logs) = 2

=============================================================================
